---- MODULE Spec2Model ----
(***************************************************************************)
(* Model of populate_db.py: the staged ETL pipeline that loads four        *)
(* tab-separated exports into a star schema (staging tables, ten           *)
(* dimension tables, two entity tables, two fact tables).                  *)
(*                                                                         *)
(* The database variables hold COMMITTED contents only: every stage works  *)
(* in one transaction and commits at its end, and a Python exception ends  *)
(* the process before conn.commit(), which rolls the open transaction     *)
(* back.                                                                   *)
(*                                                                         *)
(* A SELECT without ORDER BY returns its rows in an order SQL leaves       *)
(* unspecified (it depends on the plan the optimizer picks).  The model    *)
(* draws that order nondeterministically for every INSERT ... SELECT.      *)
(***************************************************************************)
EXTENDS Integers, Sequences, FiniteSets, TLC

VARIABLES
    files,          \* the four input files on disk
    pc,             \* position of the driver (__main__)
    calls,          \* times the staging stage was entered since the schema was created
    fileIdx,        \* index into FileOrder of the file being staged
    lphase,         \* position inside load_tsv_to_stage: "open" or "loop"
    pos,            \* data rows consumed from csv_reader so far
    rows,           \* load_tsv_to_stage: the local list `rows`
    total_count,    \* load_tsv_to_stage: the local `total_count`
    err,            \* the exception that ended the run, or NoError
    stage,          \* the four staging tables, in heap (insertion) order
    dims,           \* the ten dimension tables
    dimseq,         \* last value handed out by each dimension's SERIAL
    anime,          \* entity table anime
    users,          \* entity table users
    anime_genres,   \* fact table anime_genres
    user_anime_ratings, \* fact table user_anime_ratings
    prior,          \* history: what each staging table held when its load was called
    snap,           \* history: the warehouse after the first completed run
    failed,         \* history: an earlier invocation on this database ended in an exception
    order,          \* the order in which the driver's loop visits the files
    connections     \* the stages whose psycopg2 connection is open

vars == <<files, pc, calls, fileIdx, lphase, pos, rows, total_count, err, stage,
          dims, dimseq, anime, users, anime_genres, user_anime_ratings,
          prior, snap, failed, order, connections>>

-----------------------------------------------------------------------------
(* Bounds of the model *)

\* longest input file, in lines after the header
MaxRows == 3
\* invocations of the stages that are followed on one schema (SpecStages)
MaxCalls == 2
\* the default batch_size of load_tsv_to_stage (5_000 in the code), scaled down
BatchSize == 2
\* the batch_size of the ratings file (100_000 in the code), scaled down
RatingsBatchSize == 3

-----------------------------------------------------------------------------
(* Values *)

\* SQL NULL / Python None in a text column
NULL == "<NULL>"
\* SQL NULL in an integer, real, timestamp or foreign-key column
NULLN == -1

\* kind: the exception class; cols: the columns a ValueError lists; at: the stage it left
NoError == [kind |-> "none", cols |-> {}, at |-> "none"]

Range(s) == {s[i] : i \in 1..Len(s)}

\* all sequences over S of length at most n
RECURSIVE SeqsUpTo(_, _)
SeqsUpTo(S, n) ==
    IF n = 0 THEN {<<>>}
    ELSE LET shorter == SeqsUpTo(S, n - 1)
         IN  shorter \cup {Append(s, x) : s \in {t \in shorter : Len(t) = n - 1}, x \in S}

\* all orderings of a finite set, as sequences
RECURSIVE Perms(_)
Perms(S) ==
    IF S = {} THEN {<<>>}
    ELSE UNION {{<<x>> \o p : p \in Perms(S \ {x})} : x \in S}

-----------------------------------------------------------------------------
(* FILES and EXPECTED_COLUMNS *)

FileOrder == <<"anime", "genres", "users", "ratings">>
Tables == Range(FileOrder)

EXPECTED_COLUMNS ==
    [anime   |-> <<"AnimeID", "AnimeTitle", "Type", "Episodes", "Status", "StartDate",
                   "EndDate", "Source", "StudioName", "RatingCategory", "OverallScore",
                   "PopularityRank">>,
     genres  |-> <<"AnimeID", "GenreName">>,
     users   |-> <<"UserID", "UserName", "Country", "AgeGroup", "Gender">>,
     ratings |-> <<"UserID", "AnimeID", "UserScore", "RatingDate", "WatchStatus">>]

\* FILES[name].get("batch_size", 5_000)
BatchSizeOf(t) == IF t = "ratings" THEN RatingsBatchSize ELSE BatchSize

\* the staging columns declared TIMESTAMP
TimestampColumns == {"StartDate", "EndDate", "RatingDate"}

-----------------------------------------------------------------------------
(* Text to typed values, as PostgreSQL's input functions convert them *)

\* text accepted by timestamp_in, with the instant it denotes (day number)
Timestamps == ("2020-01-01" :> 18262) @@ ("2021-06-30" :> 18808)

\* text accepted by int4in, with its value
IntLiterals == ("12" :> 12) @@ ("7" :> 7) @@ ("9" :> 9) @@ ("5" :> 5)

\* text accepted by float4in, with its value in tenths
RealLiterals == ("8.5" :> 85) @@ [s \in DOMAIN IntLiterals |-> 10 * IntLiterals[s]]

\* a Python str or None bound to a TIMESTAMP column of a staging INSERT
TimestampOk(s) == s = NULL \/ s \in DOMAIN Timestamps
TimestampIn(s) == IF s = NULL THEN NULLN ELSE Timestamps[s]

\* NULLIF(x, '')::INTEGER
CastIntegerOk(s) == s = NULL \/ s = "" \/ s \in DOMAIN IntLiterals
CastInteger(s) == IF s = NULL \/ s = "" THEN NULLN ELSE IntLiterals[s]

\* CastReal without the NULLIF: the empty string read as zero
CastRealEmptyAsZero(s) == IF s = NULL THEN NULLN ELSE IF s = "" THEN 0 ELSE RealLiterals[s]

\* NULLIF(x, '')::REAL
CastRealOk(s) == s = NULL \/ s = "" \/ s \in DOMAIN RealLiterals
CastReal(s) == IF s = NULL \/ s = "" THEN NULLN ELSE RealLiterals[s]

-----------------------------------------------------------------------------
(* csv.DictReader and the row list built by load_tsv_to_stage *)

\* the position of the column named c in the header (the last one wins in a dict)
ColumnIndex(header, c) ==
    CHOOSE i \in 1..Len(header) :
        header[i] = c /\ \A j \in 1..Len(header) : header[j] = c => j <= i

\* DictReader.__next__ on one line: header name -> field, restval None for a
\* short line; fields beyond the header go to restkey and are never read
ParseLine(header, line) ==
    [c \in Range(header) |->
        IF ColumnIndex(header, c) <= Len(line) THEN line[ColumnIndex(header, c)] ELSE NULL]

\* DictReader skips lines that hold no field at all
RECURSIVE DataLines(_)
DataLines(lines) ==
    IF lines = <<>> THEN <<>>
    ELSE IF Head(lines) = <<>> THEN DataLines(Tail(lines))
         ELSE <<Head(lines)>> \o DataLines(Tail(lines))

\* [row.get(c, None) for c in expected_columns]
RowValues(expected, rec) ==
    [c \in Range(expected) |-> IF c \in DOMAIN rec THEN rec[c] ELSE NULL]

\* the i-th element the loop `for row in csv_reader` appends to `rows`
ParsedRow(t, i) ==
    RowValues(EXPECTED_COLUMNS[t], ParseLine(files[t].header, DataLines(files[t].lines)[i]))

NumDataRows(t) == Len(DataLines(files[t].lines))

\* sorted(set(expected_columns) - set(csv_reader.fieldnames)), as a set
MissingColumns(t) == Range(EXPECTED_COLUMNS[t]) \ Range(files[t].header)

\* the staging INSERT of one row: TIMESTAMP columns go through timestamp_in
InsertableRow(r) == \A c \in DOMAIN r : c \in TimestampColumns => TimestampOk(r[c])
StagedRow(r) == [c \in DOMAIN r |-> IF c \in TimestampColumns THEN TimestampIn(r[c]) ELSE r[c]]
StagedRows(rs) == [i \in 1..Len(rs) |-> StagedRow(rs[i])]

-----------------------------------------------------------------------------
(* The warehouse schema (STAGING_CREATE_SQL) *)

DimNames == {"anime_types", "anime_statuses", "studios", "sources", "rating_categories",
             "genres", "countries", "age_groups", "genders", "watch_statuses"}

\* the staging table and column each dimension is derived from
DimSource ==
    [anime_types       |-> [table |-> "anime",   column |-> "Type"],
     anime_statuses    |-> [table |-> "anime",   column |-> "Status"],
     studios           |-> [table |-> "anime",   column |-> "StudioName"],
     sources           |-> [table |-> "anime",   column |-> "Source"],
     rating_categories |-> [table |-> "anime",   column |-> "RatingCategory"],
     genres            |-> [table |-> "genres",  column |-> "GenreName"],
     countries         |-> [table |-> "users",   column |-> "Country"],
     age_groups        |-> [table |-> "users",   column |-> "AgeGroup"],
     genders           |-> [table |-> "users",   column |-> "Gender"],
     watch_statuses    |-> [table |-> "ratings", column |-> "WatchStatus"]]

EmptyStage == [t \in Tables |-> <<>>]
EmptyDims == [d \in DimNames |-> {}]
ZeroSeq == [d \in DimNames |-> 0]

\* the persistent part of the database: dimensions, entities, facts
Warehouse ==
    [dims |-> dims, anime |-> anime, users |-> users,
     anime_genres |-> anime_genres, user_anime_ratings |-> user_anime_ratings]

-----------------------------------------------------------------------------
(* INSERT ... SELECT ... ON CONFLICT DO NOTHING *)

\* InsertSkip with ON CONFLICT (key) DO UPDATE: the row already there is
\* replaced by the new one
RECURSIVE InsertReplace(_, _, _)
InsertReplace(table, rs, key) ==
    IF rs = <<>> THEN table
    ELSE LET r == Head(rs)
             next == {x \in table : \E k \in key : x[k] # r[k]} \cup {r}
         IN  InsertReplace(next, Tail(rs), key)

\* insert the rows of the sequence rs one after the other into the set table,
\* skipping a row whose key (a set of column names) is already there (also when an earlier row of the
\* same statement put it there)
RECURSIVE InsertSkip(_, _, _)
InsertSkip(table, rs, key) ==
    IF rs = <<>> THEN table
    ELSE LET r == Head(rs)
             next == IF \E x \in table : \A k \in key : x[k] = r[k] THEN table
                     ELSE table \cup {r}
         IN  InsertSkip(next, Tail(rs), key)

\* InsertDim with ON CONFLICT (natural value) DO UPDATE SET id = DEFAULT: the
\* row already there takes the new sequence value
RECURSIVE InsertDimRenumber(_, _, _)
InsertDimRenumber(table, seq, vals) ==
    IF vals = <<>> THEN [rows |-> table, seq |-> seq]
    ELSE LET v == Head(vals)
             next == {x \in table : x.val # v} \cup {[id |-> seq + 1, val |-> v]}
         IN  InsertDimRenumber(next, seq + 1, Tail(vals))

\* the same for a dimension table: the SERIAL default takes the next value of
\* the sequence for every row of the SELECT, also for one the conflict skips
RECURSIVE InsertDim(_, _, _)
InsertDim(table, seq, vals) ==
    IF vals = <<>> THEN [rows |-> table, seq |-> seq]
    ELSE LET v == Head(vals)
             next == IF \E x \in table : x.val = v THEN table
                     ELSE table \cup {[id |-> seq + 1, val |-> v]}
         IN  InsertDim(next, seq + 1, Tail(vals))

\* DistinctValues without the test `column <> ''`
DistinctValuesKeepEmpty(stg, d) ==
    {stg[DimSource[d].table][i][DimSource[d].column] : i \in 1..Len(stg[DimSource[d].table])}
        \ {NULL}

\* SELECT DISTINCT column FROM stage WHERE column IS NOT NULL AND column <> ''
DistinctValues(stg, d) ==
    {stg[DimSource[d].table][i][DimSource[d].column] : i \in 1..Len(stg[DimSource[d].table])}
        \ {NULL, ""}

\* LEFT JOIN dimension ON natural value = v: the surrogate id, or NULL
DimId(dm, d, v) ==
    IF \E x \in dm[d] : x.val = v THEN (CHOOSE x \in dm[d] : x.val = v).id ELSE NULLN

\* DimIds as an inner JOIN: a value without a dimension row matches nothing
DimIdsInnerJoin(dm, d, v) == {x.id : x \in {y \in dm[d] : y.val = v}}

\* the ids a LEFT JOIN pairs the value v with: one per dimension row holding
\* v, and a single NULL when no row holds it
DimIds(dm, d, v) ==
    IF \E x \in dm[d] : x.val = v THEN {x.id : x \in {y \in dm[d] : y.val = v}} ELSE {NULLN}

-----------------------------------------------------------------------------
(* Input files the model is run on.  A line is the list of its tab-separated *)
(* fields, in the order of EXPECTED_COLUMNS.                                 *)

a1 == <<"A1", "X", "TV", "", "Finished", "2020-01-01", "2021-06-30", "Manga", "Bones", "PG", "", "5">>
a2 == <<"A2", "Y", "Movie", "12", "Finished", "2020-01-01", "2021-06-30", "Manga", "", "PG", "8.5", "">>
\* a second line for A1, with other attributes
a3 == <<"A1", "Z", "Movie", "12", "Finished", "2021-06-30", "2021-06-30", "Manga", "Bones", "PG", "7", "9">>
\* a score that is no number
a4 == <<"A3", "W", "TV", "12", "Finished", "2020-01-01", "2021-06-30", "Manga", "Bones", "PG", "abc", "">>
\* an episode count that is a number but no integer
a5 == <<"A3", "W", "TV", "8.5", "Finished", "2020-01-01", "2021-06-30", "Manga", "Bones", "PG", "", "">>
\* short lines: the missing fields are None
a6 == <<"A3", "W", "OVA">>
a7 == <<"A4">>
\* an empty start date
a8 == <<"A2", "Y", "Movie", "12", "Finished", "", "2021-06-30", "Manga", "", "PG", "8.5", "">>

g1 == <<"A1", "Action">>
g2 == <<"A2", "Drama">>
g3 == <<"A9", "Action">>
g4 == <<"A1", "">>
g5 == <<"A2">>
g6 == <<"A2", "Action">>

u1 == <<"U1", "Ann", "JP", "20s", "F">>
u2 == <<"U2", "Bob", "JP", "", "F">>
u3 == <<"U1", "Ann2", "US", "20s", "">>
u4 == <<"U3">>
u5 == <<"U3", "Cy">>

r1 == <<"U1", "A1", "7", "2020-01-01", "Completed">>
r2 == <<"U1", "A1", "9", "2021-06-30", "Watching">>
r3 == <<"U9", "A1", "8.5", "2020-01-01", "Completed">>
r4 == <<"U2", "A9", "abc", "2020-01-01", "Completed">>
r5 == <<"U2", "A2", "abc", "2020-01-01", "Completed">>
r6 == <<"U2", "A1", "", "2020-01-01", "">>
r7 == <<"U2", "A2", "7", "yesterday", "Completed">>
r8 == <<"U2", "A2">>
r9 == <<"U2", "A2", "8.5", "2020-01-01", "Completed">>

\* the sets of lines each file is composed from, one set at a time
LineSets ==
    [anime   |-> {{a1, a2, a3}, {a1, a4, a6}, {a2, a5, a7}, {a6, a8, <<>>}},
     genres  |-> {{g1, g2, g3}, {g1, g4, g5}, {g2, g6, <<>>}},
     users   |-> {{u1, u2, u3}, {u1, u4, u5}, {u2, u5, <<>>}},
     ratings |-> {{r1, r2, r9}, {r1, r3, r4}, {r1, r5, r6}, {r2, r7, r8}, {r8, r9, <<>>}}]

DefaultLines ==
    [anime |-> <<a1, a2>>, genres |-> <<g1, g6>>, users |-> <<u1, u2>>, ratings |-> <<r1, r9>>]

\* a file with the expected header
PlainFile(t, lines) ==
    [exists |-> TRUE, headed |-> TRUE, header |-> EXPECTED_COLUMNS[t], lines |-> lines]

\* a file with one more column, in front of the expected ones
WiderFile(t, lines) ==
    [exists |-> TRUE,
     headed |-> TRUE,
     header |-> <<"Extra">> \o EXPECTED_COLUMNS[t],
     lines  |-> [i \in 1..Len(lines) |->
                    IF lines[i] = <<>> THEN <<>> ELSE <<"zz">> \o lines[i]]]

\* a file whose header lacks the last n expected columns
NarrowFile(t, lines, n) ==
    [exists |-> TRUE,
     headed |-> TRUE,
     header |-> SubSeq(EXPECTED_COLUMNS[t], 1, Len(EXPECTED_COLUMNS[t]) - n),
     lines  |-> [i \in 1..Len(lines) |->
                    SubSeq(lines[i], 1, IF Len(lines[i]) > Len(EXPECTED_COLUMNS[t]) - n
                                        THEN Len(EXPECTED_COLUMNS[t]) - n ELSE Len(lines[i]))]]

\* no file at the path
AbsentFile == [exists |-> FALSE, headed |-> FALSE, header |-> <<>>, lines |-> <<>>]

\* a file of zero bytes: csv_reader.fieldnames is None
EmptyFile == [exists |-> TRUE, headed |-> FALSE, header |-> <<>>, lines |-> <<>>]

\* the files one table may have while the other three have their default lines
FileChoices(t) ==
    {PlainFile(t, ls) : ls \in UNION {SeqsUpTo(S, MaxRows) : S \in LineSets[t]}}
        \cup {WiderFile(t, DefaultLines[t]), NarrowFile(t, DefaultLines[t], 1),
              NarrowFile(t, DefaultLines[t], 2), AbsentFile, EmptyFile}

DefaultFiles == [t \in Tables |-> PlainFile(t, DefaultLines[t])]

InputFiles == UNION {{[DefaultFiles EXCEPT ![t] = f] : f \in FileChoices(t)} : t \in Tables}

\* the files of the runs that call the stages on a database that is not reset
StageFiles ==
    {DefaultFiles,
     [DefaultFiles EXCEPT !["anime"] = PlainFile("anime", <<a3, a6, a2>>),
                          !["users"] = PlainFile("users", <<u5>>)],
     [DefaultFiles EXCEPT !["anime"] = WiderFile("anime", <<a2, a1, a6>>),
                          !["ratings"] = PlainFile("ratings", <<r2, r5>>)],
     [DefaultFiles EXCEPT !["anime"] = PlainFile("anime", <<a1, a4>>)],
     [DefaultFiles EXCEPT !["anime"] = PlainFile("anime", <<a2, a8>>),
                          !["genres"] = NarrowFile("genres", <<g2>>, 1)],
     [DefaultFiles EXCEPT !["genres"] = PlainFile("genres", <<g2, g5, g4>>),
                          !["users"] = PlainFile("users", <<u2, <<>>, u1>>),
                          !["ratings"] = PlainFile("ratings", <<r7>>)],
     [DefaultFiles EXCEPT !["anime"] = NarrowFile("anime", <<a1>>, 2)],
     [DefaultFiles EXCEPT !["users"] = AbsentFile],
     [DefaultFiles EXCEPT !["genres"] = EmptyFile]}

-----------------------------------------------------------------------------
(* Initial state: the script has not run yet and the database is empty *)

EmptyWarehouse ==
    [dims |-> EmptyDims, anime |-> {}, users |-> {},
     anime_genres |-> {}, user_anime_ratings |-> {}]

NoSnap == [taken |-> FALSE, warehouse |-> EmptyWarehouse]

\* the state before the first invocation, for the input files of the set F
\* and a loop over the files in one of the orders of the set O
InitFor(F, O) ==
    /\ files \in F
    /\ order \in O
    /\ pc = "schema"
    /\ calls = 0
    /\ fileIdx = 1
    /\ lphase = "open"
    /\ pos = 0
    /\ rows = <<>>
    /\ total_count = 0
    /\ err = NoError
    /\ stage = EmptyStage
    /\ dims = EmptyDims
    /\ dimseq = ZeroSeq
    /\ anime = {}
    /\ users = {}
    /\ anime_genres = {}
    /\ user_anime_ratings = {}
    /\ prior = EmptyStage
    /\ snap = NoSnap
    /\ failed = FALSE
    /\ connections = {}

\* the driver as written: `for name in FILES`
InitWith(F) == InitFor(F, {FileOrder})

\* the driver with the four loads in any order
InitAnyOrder == InitFor(StageFiles, Perms(Tables))

Init == InitWith(InputFiles)

loaderVars == <<fileIdx, lphase, pos, rows, total_count>>
warehouseVars == <<dims, dimseq, anime, users, anime_genres, user_anime_ratings>>

\* an exception leaves __main__: the process ends, the open transaction is lost
\* and the server drops the connections the process held
Raise(kind, cols) ==
    /\ err' = [kind |-> kind, cols |-> cols, at |-> pc]
    /\ pc' = "aborted"
    /\ connections' = {}

-----------------------------------------------------------------------------
(* Schema Initializer: cursor.execute(STAGING_CREATE_SQL); conn.commit() *)

\* CreateTables without the DROP statements and with CREATE TABLE IF NOT
\* EXISTS: the tables that are there stay as they are
CreateTablesIfNotExists ==
    /\ pc = "schema"
    /\ calls' = 1
    /\ pc' = "staging"
    /\ fileIdx' = 1
    /\ lphase' = "open"
    /\ UNCHANGED <<files, pos, rows, total_count, err, stage, warehouseVars, prior, snap,
                   failed, order, connections>>

CreateTables ==
    /\ pc = "schema"
    /\ stage' = EmptyStage
    /\ dims' = EmptyDims
    /\ dimseq' = ZeroSeq
    /\ anime' = {}
    /\ users' = {}
    /\ anime_genres' = {}
    /\ user_anime_ratings' = {}
    /\ prior' = EmptyStage
    /\ calls' = 1
    /\ pc' = "staging"
    /\ fileIdx' = 1
    /\ lphase' = "open"
    /\ UNCHANGED <<files, pos, rows, total_count, err, snap, failed, order, connections>>

-----------------------------------------------------------------------------
(* Staging Loader: load_tsv_to_stage, one step per commit point *)

CurrentTable == order[fileIdx]

\* LoadMissingFile with the exception caught and logged by the driver's loop,
\* which goes on to the next file
LoadMissingFileSkipped ==
    /\ pc = "staging" /\ lphase = "open"
    /\ ~files[CurrentTable].exists
    /\ IF fileIdx < Len(order)
       THEN fileIdx' = fileIdx + 1 /\ pc' = pc /\ connections' = connections \cup {"staging"}
       ELSE fileIdx' = fileIdx /\ pc' = "dimensions" /\ connections' = {}
    /\ UNCHANGED <<files, calls, lphase, pos, rows, total_count, err, stage, warehouseVars,
                   prior, snap, failed, order>>

\* if not path.exists(): raise FileNotFoundError
LoadMissingFile ==
    /\ pc = "staging" /\ lphase = "open"
    /\ ~files[CurrentTable].exists
    /\ Raise("FileNotFoundError", {})
    /\ UNCHANGED <<files, calls, loaderVars, stage, warehouseVars, prior, snap, failed, order>>

\* set(csv_reader.fieldnames) on a file without header line: set(None) raises
LoadNoHeader ==
    /\ pc = "staging" /\ lphase = "open"
    /\ files[CurrentTable].exists
    /\ ~files[CurrentTable].headed
    /\ Raise("TypeError", {})
    /\ UNCHANGED <<files, calls, loaderVars, stage, warehouseVars, prior, snap, failed, order>>

\* LoadSchemaMismatch with the DELETE moved in front of the column check
LoadSchemaMismatchAfterClear ==
    /\ pc = "staging" /\ lphase = "open"
    /\ files[CurrentTable].exists
    /\ files[CurrentTable].headed
    /\ MissingColumns(CurrentTable) # {}
    /\ stage' = [stage EXCEPT ![CurrentTable] = <<>>]
    /\ Raise("ValueError", MissingColumns(CurrentTable))
    /\ UNCHANGED <<files, calls, loaderVars, warehouseVars, prior, snap, failed, order>>

\* if missing: raise ValueError(... missing expected columns: {missing})
LoadSchemaMismatch ==
    /\ pc = "staging" /\ lphase = "open"
    /\ files[CurrentTable].exists
    /\ files[CurrentTable].headed
    /\ MissingColumns(CurrentTable) # {}
    /\ Raise("ValueError", MissingColumns(CurrentTable))
    /\ UNCHANGED <<files, calls, loaderVars, stage, warehouseVars, prior, snap, failed, order>>

\* LoadClear with the DELETE extended to all four staging tables
LoadClearAllTables ==
    /\ pc = "staging" /\ lphase = "open"
    /\ files[CurrentTable].exists
    /\ files[CurrentTable].headed
    /\ MissingColumns(CurrentTable) = {}
    /\ prior' = [prior EXCEPT ![CurrentTable] = stage[CurrentTable]]
    /\ stage' = EmptyStage
    /\ connections' = connections \cup {"staging"}
    /\ lphase' = "loop"
    /\ pos' = 0
    /\ rows' = <<>>
    /\ total_count' = 0
    /\ UNCHANGED <<files, pc, calls, fileIdx, err, warehouseVars, snap, failed, order>>

\* LoadClear without the DELETE
LoadClearKeepsRows ==
    /\ pc = "staging" /\ lphase = "open"
    /\ files[CurrentTable].exists
    /\ files[CurrentTable].headed
    /\ MissingColumns(CurrentTable) = {}
    /\ prior' = [prior EXCEPT ![CurrentTable] = stage[CurrentTable]]
    /\ connections' = connections \cup {"staging"}
    /\ lphase' = "loop"
    /\ pos' = 0
    /\ rows' = <<>>
    /\ total_count' = 0
    /\ UNCHANGED <<files, pc, calls, fileIdx, err, stage, warehouseVars, snap, failed, order>>

\* cursor.execute(DELETE FROM stage_table); conn.commit()
LoadClear ==
    /\ pc = "staging" /\ lphase = "open"
    /\ files[CurrentTable].exists
    /\ files[CurrentTable].headed
    /\ MissingColumns(CurrentTable) = {}
    /\ prior' = [prior EXCEPT ![CurrentTable] = stage[CurrentTable]]
    /\ stage' = [stage EXCEPT ![CurrentTable] = <<>>]
    /\ connections' = connections \cup {"staging"}
    /\ lphase' = "loop"
    /\ pos' = 0
    /\ rows' = <<>>
    /\ total_count' = 0
    /\ UNCHANGED <<files, pc, calls, fileIdx, err, warehouseVars, snap, failed, order>>

\* one iteration of `for row in csv_reader` that does not fill the batch
ReadRow ==
    /\ pc = "staging" /\ lphase = "loop"
    /\ pos < NumDataRows(CurrentTable)
    /\ Len(rows) + 1 # BatchSizeOf(CurrentTable)
    /\ rows' = Append(rows, ParsedRow(CurrentTable, pos + 1))
    /\ pos' = pos + 1
    /\ UNCHANGED <<files, pc, calls, fileIdx, lphase, total_count, err, stage,
                   warehouseVars, prior, snap, failed, order, connections>>

\* ReadRowCommit without `rows = []` after the commit
ReadRowCommitKeepsRows ==
    /\ pc = "staging" /\ lphase = "loop"
    /\ pos < NumDataRows(CurrentTable)
    /\ Len(rows) + 1 = BatchSizeOf(CurrentTable)
    /\ LET batch == Append(rows, ParsedRow(CurrentTable, pos + 1))
       IN  /\ \A i \in 1..Len(batch) : InsertableRow(batch[i])
           /\ stage' = [stage EXCEPT ![CurrentTable] = @ \o StagedRows(batch)]
           /\ total_count' = total_count + Len(batch)
           /\ rows' = batch
    /\ pos' = pos + 1
    /\ UNCHANGED <<files, pc, calls, fileIdx, lphase, err, warehouseVars, prior, snap,
                   failed, order, connections>>

\* one iteration that fills the batch: execute_batch(cursor, sql, rows); conn.commit()
ReadRowCommit ==
    /\ pc = "staging" /\ lphase = "loop"
    /\ pos < NumDataRows(CurrentTable)
    /\ Len(rows) + 1 = BatchSizeOf(CurrentTable)
    /\ LET batch == Append(rows, ParsedRow(CurrentTable, pos + 1))
       IN  /\ \A i \in 1..Len(batch) : InsertableRow(batch[i])
           /\ stage' = [stage EXCEPT ![CurrentTable] = @ \o StagedRows(batch)]
           /\ total_count' = total_count + Len(batch)
    /\ rows' = <<>>
    /\ pos' = pos + 1
    /\ UNCHANGED <<files, pc, calls, fileIdx, lphase, err, warehouseVars, prior, snap,
                   failed, order, connections>>

\* the same iteration when a row of the batch is refused by a TIMESTAMP column:
\* execute_batch raises and the batch is never committed
ReadRowFail ==
    /\ pc = "staging" /\ lphase = "loop"
    /\ pos < NumDataRows(CurrentTable)
    /\ Len(rows) + 1 = BatchSizeOf(CurrentTable)
    /\ LET batch == Append(rows, ParsedRow(CurrentTable, pos + 1))
       IN  /\ \E i \in 1..Len(batch) : ~InsertableRow(batch[i])
           /\ rows' = batch
    /\ pos' = pos + 1
    /\ Raise("DataError", {})
    /\ UNCHANGED <<files, calls, fileIdx, lphase, total_count, stage, warehouseVars,
                   prior, snap, failed, order>>

\* LoadFinish without conn.close() after the loop over the files
LoadFinishLeavesOpen ==
    /\ pc = "staging" /\ lphase = "loop"
    /\ pos = NumDataRows(CurrentTable)
    /\ \A i \in 1..Len(rows) : InsertableRow(rows[i])
    /\ stage' = [stage EXCEPT ![CurrentTable] = @ \o StagedRows(rows)]
    /\ total_count' = total_count + Len(rows)
    /\ rows' = <<>>
    /\ lphase' = "open"
    /\ IF fileIdx < Len(order)
       THEN fileIdx' = fileIdx + 1 /\ pc' = pc
       ELSE fileIdx' = fileIdx /\ pc' = "dimensions"
    /\ UNCHANGED <<files, calls, pos, err, warehouseVars, prior, snap, failed, order,
                   connections>>

\* after the loop: `if rows:` flushes the last partial batch, then the driver
\* goes on to the next file, or closes the connection
LoadFinish ==
    /\ pc = "staging" /\ lphase = "loop"
    /\ pos = NumDataRows(CurrentTable)
    /\ \A i \in 1..Len(rows) : InsertableRow(rows[i])
    /\ stage' = [stage EXCEPT ![CurrentTable] = @ \o StagedRows(rows)]
    /\ total_count' = total_count + Len(rows)
    /\ rows' = <<>>
    /\ lphase' = "open"
    /\ IF fileIdx < Len(order)
       THEN fileIdx' = fileIdx + 1 /\ pc' = pc /\ connections' = connections
       ELSE fileIdx' = fileIdx /\ pc' = "dimensions"
                /\ connections' = connections \ {"staging"}
    /\ UNCHANGED <<files, calls, pos, err, warehouseVars, prior, snap, failed, order>>

\* the last partial batch is refused
LoadFinishFail ==
    /\ pc = "staging" /\ lphase = "loop"
    /\ pos = NumDataRows(CurrentTable)
    /\ \E i \in 1..Len(rows) : ~InsertableRow(rows[i])
    /\ Raise("DataError", {})
    /\ UNCHANGED <<files, calls, loaderVars, stage, warehouseVars, prior, snap, failed, order>>

-----------------------------------------------------------------------------
(* Dimension Builder: build_dimensions *)

\* the ten INSERT ... SELECT DISTINCT statements, each taking its rows in the
\* order given by ord
DimensionsAfter(dm, sq, ord) ==
    [d \in DimNames |-> InsertDim(dm[d], sq[d], ord[d])]

\* BuildDimensions without conn.commit(): the driver goes on, the closed
\* connection's transaction is rolled back
BuildDimensionsNoCommit ==
    /\ pc = "dimensions"
    /\ pc' = "entities"
    /\ UNCHANGED <<files, calls, loaderVars, err, stage, warehouseVars, prior, snap,
                   failed, order, connections>>

BuildDimensions ==
    /\ pc = "dimensions"
    /\ \E o1 \in Perms(DistinctValues(stage, "anime_types")),
          o2 \in Perms(DistinctValues(stage, "anime_statuses")),
          o3 \in Perms(DistinctValues(stage, "studios")),
          o4 \in Perms(DistinctValues(stage, "sources")),
          o5 \in Perms(DistinctValues(stage, "rating_categories")),
          o6 \in Perms(DistinctValues(stage, "genres")),
          o7 \in Perms(DistinctValues(stage, "countries")),
          o8 \in Perms(DistinctValues(stage, "age_groups")),
          o9 \in Perms(DistinctValues(stage, "genders")),
          o10 \in Perms(DistinctValues(stage, "watch_statuses")) :
            LET ord == [anime_types |-> o1, anime_statuses |-> o2, studios |-> o3,
                        sources |-> o4, rating_categories |-> o5, genres |-> o6,
                        countries |-> o7, age_groups |-> o8, genders |-> o9,
                        watch_statuses |-> o10]
                after == DimensionsAfter(dims, dimseq, ord)
            IN  /\ dims' = [d \in DimNames |-> after[d].rows]
                /\ dimseq' = [d \in DimNames |-> after[d].seq]
    /\ pc' = "entities"
    /\ UNCHANGED <<files, calls, loaderVars, err, stage, anime, users, anime_genres,
                   user_anime_ratings, prior, snap, failed, order, connections>>

-----------------------------------------------------------------------------
(* Entity Loader: load_entities *)

\* what evaluating and inserting the row selected for s raises, if anything:
\* the casts of the select list come first, then the NOT NULL columns
AnimeRowError(s) ==
    IF ~(CastIntegerOk(s.Episodes) /\ CastRealOk(s.OverallScore)
            /\ CastIntegerOk(s.PopularityRank))
    THEN "DataError"
    ELSE IF s.AnimeID = NULL \/ s.AnimeTitle = NULL THEN "NotNullViolation" ELSE "none"

UserRowError(s) ==
    IF s.UserID = NULL \/ s.UserName = NULL THEN "NotNullViolation" ELSE "none"

\* the row the SELECT of the anime statement yields for the staging row s
AnimeRow(s, dm) ==
    [anime_id           |-> s.AnimeID,
     title              |-> s.AnimeTitle,
     type_id            |-> DimId(dm, "anime_types", s.Type),
     status_id          |-> DimId(dm, "anime_statuses", s.Status),
     episodes           |-> CastInteger(s.Episodes),
     start_date         |-> s.StartDate,
     end_date           |-> s.EndDate,
     source_id          |-> DimId(dm, "sources", s.Source),
     studio_id          |-> DimId(dm, "studios", s.StudioName),
     rating_category_id |-> DimId(dm, "rating_categories", s.RatingCategory),
     overall_score      |-> CastReal(s.OverallScore),
     popularity_rank    |-> CastInteger(s.PopularityRank)]

\* the row the SELECT of the users statement yields for the staging row s
UserRow(s, dm) ==
    [user_id      |-> s.UserID,
     user_name    |-> s.UserName,
     country_id   |-> DimId(dm, "countries", s.Country),
     age_group_id |-> DimId(dm, "age_groups", s.AgeGroup),
     gender_id    |-> DimId(dm, "genders", s.Gender)]

\* the rows the SELECT of the anime statement yields: for each staging row one
\* row per combination of the dimension rows its five LEFT JOINs match
AnimeJoin(stg, dm) ==
    UNION {{[AnimeRow(s, dm) EXCEPT !.type_id = ty, !.status_id = st, !.source_id = so,
                                    !.studio_id = sd, !.rating_category_id = rc] :
                ty \in DimIds(dm, "anime_types", s.Type),
                st \in DimIds(dm, "anime_statuses", s.Status),
                so \in DimIds(dm, "sources", s.Source),
                sd \in DimIds(dm, "studios", s.StudioName),
                rc \in DimIds(dm, "rating_categories", s.RatingCategory)} :
           s \in Range(stg["anime"])}

\* the rows the SELECT of the users statement yields
UserJoin(stg, dm) ==
    UNION {{[UserRow(s, dm) EXCEPT !.country_id = co, !.age_group_id = ag, !.gender_id = ge] :
                co \in DimIds(dm, "countries", s.Country),
                ag \in DimIds(dm, "age_groups", s.AgeGroup),
                ge \in DimIds(dm, "genders", s.Gender)} :
           s \in Range(stg["users"])}

AnimeErrors(stg) == {AnimeRowError(s) : s \in Range(stg["anime"])} \ {"none"}
UserErrors(stg) == {UserRowError(s) : s \in Range(stg["users"])} \ {"none"}

\* both statements run to their end, then conn.commit()
LoadEntities ==
    /\ pc = "entities"
    /\ AnimeErrors(stage) = {}
    /\ UserErrors(stage) = {}
    /\ \E oa \in Perms(AnimeJoin(stage, dims)),
          ou \in Perms(UserJoin(stage, dims)) :
            /\ anime' = InsertSkip(anime, oa, {"anime_id"})
            /\ users' = InsertSkip(users, ou, {"user_id"})
    /\ pc' = "facts"
    /\ UNCHANGED <<files, calls, loaderVars, err, stage, dims, dimseq, anime_genres,
                   user_anime_ratings, prior, snap, failed, order, connections>>

\* LoadEntitiesFail with each statement committed on its own: the users
\* statement still commits when the anime statement raised
LoadEntitiesFailKeepsUsers ==
    /\ pc = "entities"
    /\ \E k \in (IF AnimeErrors(stage) # {} THEN AnimeErrors(stage) ELSE UserErrors(stage)) :
            Raise(k, {})
    /\ \E ou \in Perms(UserJoin(stage, dims)) :
            users' = IF UserErrors(stage) = {} THEN InsertSkip(users, ou, {"user_id"}) ELSE users
    /\ UNCHANGED <<files, calls, loaderVars, stage, dims, dimseq, anime, anime_genres,
                   user_anime_ratings, prior, snap, failed, order>>

\* a statement raises on whichever offending row it reaches first: nothing of
\* the stage is committed
LoadEntitiesFail ==
    /\ pc = "entities"
    /\ \E k \in (IF AnimeErrors(stage) # {} THEN AnimeErrors(stage) ELSE UserErrors(stage)) :
            Raise(k, {})
    /\ UNCHANGED <<files, calls, loaderVars, stage, warehouseVars, prior, snap, failed, order>>

-----------------------------------------------------------------------------
(* Fact Builder: build_facts *)

\* GenreFactRows without `JOIN anime`
GenreFactRowsNoItemJoin(stg, dm, an) ==
    {[anime_id |-> s.AnimeID, genre_id |-> DimId(dm, "genres", s.GenreName)] :
        s \in {x \in Range(stg["genres"]) : DimId(dm, "genres", x.GenreName) # NULLN}}

\* stage_genres JOIN genres JOIN anime
GenreFactRows(stg, dm, an) ==
    {[anime_id |-> s.AnimeID, genre_id |-> DimId(dm, "genres", s.GenreName)] :
        s \in {x \in Range(stg["genres"]) :
                  /\ DimId(dm, "genres", x.GenreName) # NULLN
                  /\ \E a \in an : a.anime_id = x.AnimeID}}

\* RatingJoin with LEFT JOIN watch_statuses: a rating without a watch status
\* row passes, with a null reference
RatingJoinLeftWatchStatus(stg, dm, us, an) ==
    {s \in Range(stg["ratings"]) :
        /\ \E u \in us : u.user_id = s.UserID
        /\ \E a \in an : a.anime_id = s.AnimeID}

\* the rows of stage_ratings that pass JOIN watch_statuses JOIN users JOIN anime
RatingJoin(stg, dm, us, an) ==
    {s \in Range(stg["ratings"]) :
        /\ DimId(dm, "watch_statuses", s.WatchStatus) # NULLN
        /\ \E u \in us : u.user_id = s.UserID
        /\ \E a \in an : a.anime_id = s.AnimeID}

\* the row the SELECT of the ratings statement yields for the joined row s
RatingRow(s, dm) ==
    [user_id         |-> s.UserID,
     anime_id        |-> s.AnimeID,
     user_score      |-> CastReal(s.UserScore),
     rating_date     |-> s.RatingDate,
     watch_status_id |-> DimId(dm, "watch_statuses", s.WatchStatus)]

\* RatingErrors with the cast evaluated on every staged row, joined or not
RatingErrorsBeforeJoin(stg, dm, us, an) ==
    {s \in Range(stg["ratings"]) : ~CastRealOk(s.UserScore)}

RatingErrors(stg, dm, us, an) ==
    {s \in RatingJoin(stg, dm, us, an) : ~CastRealOk(s.UserScore)}

BuildFacts ==
    /\ pc = "facts"
    /\ RatingErrors(stage, dims, users, anime) = {}
    /\ \E og \in Perms(GenreFactRows(stage, dims, anime)),
          orr \in Perms({RatingRow(s, dims) : s \in RatingJoin(stage, dims, users, anime)}) :
            /\ anime_genres' = InsertSkip(anime_genres, og, {"anime_id", "genre_id"})
            /\ user_anime_ratings' = InsertSkip(user_anime_ratings, orr, {"user_id", "anime_id"})
    /\ pc' = "done"
    /\ snap' = IF snap.taken THEN snap
               ELSE [taken |-> TRUE,
                     warehouse |-> [dims |-> dims, anime |-> anime, users |-> users,
                                    anime_genres |-> anime_genres',
                                    user_anime_ratings |-> user_anime_ratings']]
    /\ UNCHANGED <<files, calls, loaderVars, err, stage, dims, dimseq, anime, users, prior,
                   failed, order, connections>>

\* the cast of a joined row's UserScore raises: the anime_genres rows of the
\* same transaction are lost with it
BuildFactsFail ==
    /\ pc = "facts"
    /\ RatingErrors(stage, dims, users, anime) # {}
    /\ Raise("DataError", {})
    /\ UNCHANGED <<files, calls, loaderVars, stage, warehouseVars, prior, snap, failed, order>>

-----------------------------------------------------------------------------
(* The environment *)

\* psycopg2.connect, execute or commit raises OperationalError in some stage
ConnectionFailure ==
    /\ pc \in {"schema", "staging", "dimensions", "entities", "facts"}
    /\ Raise("OperationalError", {})
    /\ UNCHANGED <<files, calls, loaderVars, stage, warehouseVars, prior, snap, failed, order>>

\* the script is invoked again, on the same files and the same database
Rerun ==
    /\ pc \in {"done", "aborted"}
    /\ pc' = "schema"
    /\ failed' = (failed \/ pc = "aborted")
    /\ err' = NoError
    /\ fileIdx' = 1
    /\ lphase' = "open"
    /\ pos' = 0
    /\ rows' = <<>>
    /\ total_count' = 0
    /\ UNCHANGED <<files, calls, stage, warehouseVars, prior, snap, order, connections>>

\* the steps of the five stages
Steps ==
    \/ CreateTables
    \/ LoadMissingFile
    \/ LoadNoHeader
    \/ LoadSchemaMismatch
    \/ LoadClear
    \/ ReadRow
    \/ ReadRowCommit
    \/ ReadRowFail
    \/ LoadFinish
    \/ LoadFinishFail
    \/ BuildDimensions
    \/ LoadEntities
    \/ LoadEntitiesFail
    \/ BuildFacts
    \/ BuildFactsFail

Next ==
    \/ Steps
    \/ ConnectionFailure
    \/ Rerun

\* the stage functions are called again on the database as it is, without the
\* schema reset, on files that may have been replaced meanwhile
InvokeStagesAgain ==
    /\ pc \in {"done", "aborted"}
    /\ calls < MaxCalls
    /\ calls' = calls + 1
    /\ files' \in StageFiles
    /\ pc' = "staging"
    /\ failed' = (failed \/ pc = "aborted")
    /\ err' = NoError
    /\ fileIdx' = 1
    /\ lphase' = "open"
    /\ pos' = 0
    /\ rows' = <<>>
    /\ total_count' = 0
    /\ UNCHANGED <<stage, warehouseVars, prior, snap, order, connections>>

\* runs during which the connection holds
NextStages ==
    \/ Steps
    \/ InvokeStagesAgain

InitStages == InitWith(StageFiles)

\* the script is invoked again after the export files have been replaced
RerunOnNewFiles ==
    /\ pc \in {"done", "aborted"}
    /\ files' \in StageFiles
    /\ pc' = "schema"
    /\ failed' = (failed \/ pc = "aborted")
    /\ err' = NoError
    /\ fileIdx' = 1
    /\ lphase' = "open"
    /\ pos' = 0
    /\ rows' = <<>>
    /\ total_count' = 0
    /\ UNCHANGED <<calls, stage, warehouseVars, prior, snap, order, connections>>

\* runs of the script on exports that change from one run to the next
NextNewFiles ==
    \/ Steps
    \/ RerunOnNewFiles

\* the script, invoked any number of times on the same files
Spec == Init /\ [][Next]_vars

\* the script once, then the stages invoked again without the schema reset
SpecStages == InitStages /\ [][NextStages]_vars

\* one run of the script with the loop over the files in any order
SpecAnyOrder == InitAnyOrder /\ [][Steps]_vars

\* the script, invoked any number of times, each time on another export
SpecNewFiles == InitStages /\ [][NextNewFiles]_vars

-----------------------------------------------------------------------------
(* Properties *)

\* the natural values a dimension is to hold: the non-null, non-empty values of
\* its staging column
StagedNaturalValues(d) ==
    {v \in {stage[DimSource[d].table][i][DimSource[d].column] :
                i \in 1..Len(stage[DimSource[d].table])} : v # NULL /\ v # ""}

HasDim(d, id) == \E x \in dims[d] : x.id = id
HasAnime(id) == \E a \in anime : a.anime_id = id
HasUser(id) == \E u \in users : u.user_id = id

\* C1: a second complete run of the pipeline on the same files leaves the
\* warehouse (dimension rows with their surrogate ids, entity rows, fact rows)
\* exactly as the first complete run left it
C1_Idempotent == (pc = "done" /\ snap.taken) => Warehouse = snap.warehouse

\* C2: referential integrity in every reachable state: a fact row references
\* existing entity rows, and every non-null dimension reference of an entity or
\* fact row references an existing dimension row
C2_ReferentialIntegrity ==
    /\ \A g \in anime_genres : HasAnime(g.anime_id) /\ HasDim("genres", g.genre_id)
    /\ \A r \in user_anime_ratings :
          /\ HasUser(r.user_id)
          /\ HasAnime(r.anime_id)
          /\ r.watch_status_id # NULLN => HasDim("watch_statuses", r.watch_status_id)
    /\ \A a \in anime :
          /\ a.type_id # NULLN => HasDim("anime_types", a.type_id)
          /\ a.status_id # NULLN => HasDim("anime_statuses", a.status_id)
          /\ a.source_id # NULLN => HasDim("sources", a.source_id)
          /\ a.studio_id # NULLN => HasDim("studios", a.studio_id)
          /\ a.rating_category_id # NULLN => HasDim("rating_categories", a.rating_category_id)
    /\ \A u \in users :
          /\ u.country_id # NULLN => HasDim("countries", u.country_id)
          /\ u.age_group_id # NULLN => HasDim("age_groups", u.age_group_id)
          /\ u.gender_id # NULLN => HasDim("genders", u.gender_id)

\* an aborted second run found the warehouse of the first run, facts included
C2_Witness ==
    /\ pc = "aborted"
    /\ anime_genres # {}
    /\ user_anime_ratings # {}
    /\ \E a \in anime : a.type_id # NULLN /\ a.studio_id = NULLN
    /\ \E u \in users : u.country_id # NULLN

\* C3: once the Dimension Builder has run on the empty schema, every dimension
\* holds exactly one row per distinct non-null, non-empty staged value
C3_DimensionUniqueness ==
    pc \in {"entities", "facts", "done"} =>
        \A d \in DimNames :
            /\ {x.val : x \in dims[d]} = StagedNaturalValues(d)
            /\ Cardinality(dims[d]) = Cardinality(StagedNaturalValues(d))
            /\ \A x, y \in dims[d] : x.val = y.val => x = y

\* a finished run whose staging held a repeated value, an empty one and two
\* distinct ones in dimension columns
C3_Witness ==
    /\ pc = "done"
    /\ Cardinality(dims["anime_types"]) = 2
    /\ Len(stage["anime"]) = 3
    /\ \E i \in 1..Len(stage["anime"]) : stage["anime"][i].StudioName = ""
    /\ Cardinality(dims["studios"]) = 1

\* a staged rating row whose user, item and watch status all resolve
Resolves(s) ==
    /\ HasUser(s.UserID)
    /\ HasAnime(s.AnimeID)
    /\ \E x \in dims["watch_statuses"] : x.val = s.WatchStatus

\* the positions of the staged rating rows for the same (user, item) pair as row i
SamePair(i) ==
    {j \in 1..Len(stage["ratings"]) :
        /\ stage["ratings"][j].UserID = stage["ratings"][i].UserID
        /\ stage["ratings"][j].AnimeID = stage["ratings"][i].AnimeID}

\* the number a well-formed numeric text stands for, in tenths; null for '' and NULL
ScoreOf(txt) == IF txt = NULL \/ txt = "" THEN NULLN ELSE RealLiterals[txt]

\* C4: when several staged ratings for one (user, item) pair carry different
\* scores and all resolve, the Fact Builder leaves exactly one rating row for
\* the pair, holding the score of the first of them in staging
C4_FirstScoreWins ==
    pc = "done" =>
        \A i \in 1..Len(stage["ratings"]) :
            ( /\ \A j \in SamePair(i) : i <= j /\ Resolves(stage["ratings"][j])
              /\ \E j \in SamePair(i) :
                    stage["ratings"][j].UserScore # stage["ratings"][i].UserScore )
            => /\ Cardinality({r \in user_anime_ratings :
                                  /\ r.user_id = stage["ratings"][i].UserID
                                  /\ r.anime_id = stage["ratings"][i].AnimeID}) = 1
               /\ \A r \in user_anime_ratings :
                    (r.user_id = stage["ratings"][i].UserID
                        /\ r.anime_id = stage["ratings"][i].AnimeID)
                    => r.user_score = ScoreOf(stage["ratings"][i].UserScore)

\* a staged item-genre row whose item is not in the item table
GenreOrphan(s) == ~HasAnime(s.AnimeID)
\* a staged rating row whose item or user is not in the entity tables
RatingOrphan(s) == ~HasAnime(s.AnimeID) \/ ~HasUser(s.UserID)

\* C5: an orphan staged fact row yields no fact row and raises nothing: when
\* the Fact Builder raises, a row that resolves is the cause; when it
\* completes, every resolvable staged row has its fact row
C5_OrphanDropping ==
    /\ pc = "done" =>
          /\ \A s \in Range(stage["genres"]) :
                /\ GenreOrphan(s) => ~\E g \in anime_genres : g.anime_id = s.AnimeID
                /\ (~GenreOrphan(s) /\ \E x \in dims["genres"] : x.val = s.GenreName)
                      => \E g \in anime_genres :
                            /\ g.anime_id = s.AnimeID
                            /\ \E x \in dims["genres"] : x.val = s.GenreName /\ x.id = g.genre_id
          /\ \A s \in Range(stage["ratings"]) :
                /\ RatingOrphan(s) =>
                      ~\E r \in user_anime_ratings :
                            r.user_id = s.UserID /\ r.anime_id = s.AnimeID
                /\ Resolves(s) =>
                      \E r \in user_anime_ratings :
                            r.user_id = s.UserID /\ r.anime_id = s.AnimeID
    /\ (pc = "aborted" /\ err.at = "facts" /\ err.kind = "DataError") =>
          \E s \in Range(stage["ratings"]) :
                Resolves(s) /\ s.UserScore \notin DOMAIN RealLiterals \cup {NULL, ""}

\* the Fact Builder completed over an orphan genre row, a rating of an unknown
\* user and a rating of an unknown item with a malformed score, and inserted
\* the rows that resolve
C5_Witness ==
    /\ pc = "done"
    /\ \E s \in Range(stage["ratings"]) :
          ~HasAnime(s.AnimeID) /\ s.UserScore \notin DOMAIN RealLiterals \cup {NULL, ""}
    /\ \E s \in Range(stage["ratings"]) : ~HasUser(s.UserID) /\ HasAnime(s.AnimeID)
    /\ user_anime_ratings # {}
    /\ anime # {}

\* what a staged numeric text is to become in an entity row, for a real and an
\* integer column
RealOf(txt) == IF txt = NULL \/ txt = "" THEN NULLN ELSE RealLiterals[txt]
IntegerOf(txt) == IF txt = NULL \/ txt = "" THEN NULLN ELSE IntLiterals[txt]

\* the surrogate id of the natural value v in dimension d, null when there is none
RefOf(d, v) == IF \E x \in dims[d] : x.val = v THEN (CHOOSE x \in dims[d] : x.val = v).id ELSE NULLN

\* C6: after the Entity Loader every item row stems from a staged row of its
\* id: an empty numeric text has become null, a well-formed one its number,
\* and the other attributes are those of that staged row; the two-item example
\* gives two type rows, two item rows, A1 without score and A2 with 8.5
C6_EmptyNumericIsNull ==
    pc \in {"facts", "done"} =>
        /\ \A e \in anime : \E s \in Range(stage["anime"]) :
              /\ e.anime_id = s.AnimeID
              /\ e.title = s.AnimeTitle
              /\ e.episodes = IntegerOf(s.Episodes)
              /\ e.overall_score = RealOf(s.OverallScore)
              /\ e.popularity_rank = IntegerOf(s.PopularityRank)
              /\ s.OverallScore = "" => e.overall_score = NULLN
              /\ e.type_id = RefOf("anime_types", s.Type)
              /\ e.status_id = RefOf("anime_statuses", s.Status)
              /\ e.source_id = RefOf("sources", s.Source)
              /\ e.studio_id = RefOf("studios", s.StudioName)
              /\ e.rating_category_id = RefOf("rating_categories", s.RatingCategory)
              /\ e.start_date = s.StartDate
              /\ e.end_date = s.EndDate
        /\ \A s \in Range(stage["anime"]) : HasAnime(s.AnimeID)
        /\ files["anime"].lines = <<a1, a2>> =>
              /\ {x.val : x \in dims["anime_types"]} = {"TV", "Movie"}
              /\ Cardinality(dims["anime_types"]) = 2
              /\ Cardinality(anime) = 2
              /\ \A e \in anime : e.anime_id = "A1" => e.overall_score = NULLN /\ e.title = "X"
              /\ \A e \in anime : e.anime_id = "A2" => e.overall_score = 85 /\ e.episodes = 12

\* the example: A1 with an empty score, A2 with score 8.5
C6_Witness ==
    /\ pc = "facts"
    /\ Len(stage["anime"]) = 2
    /\ \E e \in anime : e.anime_id = "A1" /\ e.overall_score = NULLN /\ e.popularity_rank = 5
    /\ \E e \in anime : e.anime_id = "A2" /\ e.overall_score = 85 /\ e.popularity_rank = NULLN
    /\ Cardinality(dims["anime_types"]) = 2

\* a staged item with a non-empty numeric text that is no number of the column's type
Malformed(s) ==
    \/ s.Episodes \notin DOMAIN IntLiterals \cup {NULL, ""}
    \/ s.OverallScore \notin DOMAIN RealLiterals \cup {NULL, ""}
    \/ s.PopularityRank \notin DOMAIN IntLiterals \cup {NULL, ""}

\* C7: with a malformed numeric text among the staged items the Entity Loader
\* never completes, and a run that ended in the Entity Loader has committed no
\* item row and no user row
C7_CoercionAborts ==
    /\ (\E s \in Range(stage["anime"]) : Malformed(s)) => pc \notin {"facts", "done"}
    /\ (pc = "aborted" /\ err.at = "entities") => anime = {} /\ users = {}

\* the Entity Loader raised on a malformed row staged next to a well-formed
\* one, with users staged too
C7_Witness ==
    /\ pc = "aborted"
    /\ err.at = "entities"
    /\ err.kind = "DataError"
    /\ \E s \in Range(stage["anime"]) : Malformed(s)
    /\ \E s \in Range(stage["anime"]) : ~Malformed(s) /\ s.AnimeTitle # NULL
    /\ stage["users"] # <<>>

\* the staging row the i-th data line of table t's file is to become
ExpectedStaged(t, i) ==
    LET line == DataLines(files[t].lines)[i]
        header == files[t].header
        field(c) == IF ColumnIndex(header, c) <= Len(line)
                    THEN line[ColumnIndex(header, c)] ELSE NULL
    IN  [c \in Range(EXPECTED_COLUMNS[t]) |->
            IF c \in TimestampColumns
            THEN (IF field(c) = NULL THEN NULLN ELSE Timestamps[field(c)])
            ELSE field(c)]

\* the position of table t in the order the driver stages the files
FilePosition(t) == CHOOSE i \in 1..Len(order) : order[i] = t

\* the current invocation has completed the load of table t
Loaded(t) ==
    \/ pc \in {"dimensions", "entities", "facts", "done"}
    \/ pc = "staging" /\ FilePosition(t) < fileIdx

\* C8: a load whose file is missing or whose header lacks expected columns
\* raises without touching any table, the ValueError names every missing
\* column, and a header with extra columns is never refused (a file without
\* any header line is refused as well, by a TypeError)
C8_ValidateBeforeMutate ==
    [][ (pc = "staging" /\ lphase = "open") =>
            /\ (~files[CurrentTable].exists
                    \/ ~(Range(EXPECTED_COLUMNS[CurrentTable]) \subseteq Range(files[CurrentTable].header)))
                => /\ pc' = "aborted"
                   /\ stage' = stage
                   /\ Warehouse' = Warehouse
                   /\ \/ err'.kind = "OperationalError"
                      \/ err'.kind = "FileNotFoundError" /\ ~files[CurrentTable].exists
                      \/ /\ err'.kind = "TypeError"
                         /\ files[CurrentTable].exists
                         /\ ~files[CurrentTable].headed
                      \/ /\ err'.kind = "ValueError"
                         /\ files[CurrentTable].exists
                         /\ files[CurrentTable].headed
                         /\ err'.cols = Range(EXPECTED_COLUMNS[CurrentTable])
                                            \ Range(files[CurrentTable].header)
            /\ (files[CurrentTable].exists
                    /\ Range(EXPECTED_COLUMNS[CurrentTable]) \subseteq Range(files[CurrentTable].header))
                => (pc' = "aborted" => err'.kind = "OperationalError")
      ]_vars

\* a load refused for two missing columns left the rows the table held
C8_Witness ==
    /\ pc = "aborted"
    /\ err.at = "staging"
    /\ err.kind = "ValueError"
    /\ Cardinality(err.cols) = 2
    /\ stage[CurrentTable] # <<>>

\* C9: when a load has completed, the staging table holds exactly the data
\* rows of the file, in file order, a field missing from a line being null,
\* whatever the table held before
C9_FullReload ==
    \A t \in Tables :
        Loaded(t) =>
            /\ Len(stage[t]) = NumDataRows(t)
            /\ \A i \in 1..Len(stage[t]) : stage[t][i] = ExpectedStaged(t, i)

\* a completed load of a table that held other rows before, from a file with a
\* short line
C9_Witness ==
    \E t \in Tables :
        /\ Loaded(t)
        /\ prior[t] # <<>>
        /\ \E i \in 1..Len(prior[t]) : prior[t][i] \notin Range(stage[t])
        /\ \E i \in 1..Len(stage[t]) :
              \E c \in DOMAIN stage[t][i] \ TimestampColumns : stage[t][i][c] = NULL

\* C10: while a file is being staged, and when the run ends there, the
\* committed rows are a prefix of the file, a whole number of batches long
\* unless it is the whole file, and at most one batch of rows read is not
\* committed yet
C10_BatchPrefix ==
    /\ ((pc = "staging" \/ (pc = "aborted" /\ err.at = "staging")) /\ lphase = "loop") =>
          /\ Len(stage[CurrentTable]) <= NumDataRows(CurrentTable)
          /\ \A i \in 1..Len(stage[CurrentTable]) :
                stage[CurrentTable][i] = ExpectedStaged(CurrentTable, i)
          /\ \/ Len(stage[CurrentTable]) % BatchSizeOf(CurrentTable) = 0
             \/ Len(stage[CurrentTable]) = NumDataRows(CurrentTable)
          /\ pos - Len(stage[CurrentTable]) = Len(rows)
          /\ Len(rows) <= BatchSizeOf(CurrentTable)
          /\ total_count = Len(stage[CurrentTable])
    /\ \A t \in Tables : Loaded(t) => Len(stage[t]) = NumDataRows(t)

\* one batch committed and one more row read
C10_Witness ==
    /\ pc = "staging"
    /\ lphase = "loop"
    /\ Len(stage[CurrentTable]) = BatchSizeOf(CurrentTable)
    /\ Len(rows) = 1
    /\ pos = NumDataRows(CurrentTable)

\* the natural values held by a dimension table
ValuesOf(table) == {x.val : x \in table}

\* C11: the Dimension Builder is a set union on every dimension, whatever the
\* dimension held before: every row there before is still there with its value
\* and id, the values afterwards are the former ones and the staged ones, one
\* row each, and nothing changes when every staged value was already there
C11_DimensionUnion ==
    [][ (pc = "dimensions" /\ pc' = "entities") =>
            \A d \in DimNames :
                /\ dims[d] \subseteq dims'[d]
                /\ ValuesOf(dims'[d]) = ValuesOf(dims[d]) \cup StagedNaturalValues(d)
                /\ Cardinality(dims'[d]) = Cardinality(ValuesOf(dims'[d]))
                /\ StagedNaturalValues(d) \subseteq ValuesOf(dims[d]) => dims'[d] = dims[d]
      ]_vars

\* the Dimension Builder ran a second time on the same schema, after staging
\* had gained a value: one dimension kept its rows and grew, another is as the
\* first run left it
C11_Witness ==
    /\ calls = 2
    /\ pc = "entities"
    /\ snap.taken
    /\ \E d \in DimNames :
          /\ snap.warehouse.dims[d] # {}
          /\ snap.warehouse.dims[d] \subseteq dims[d]
          /\ snap.warehouse.dims[d] # dims[d]
    /\ \E d \in DimNames :
          /\ snap.warehouse.dims[d] # {}
          /\ snap.warehouse.dims[d] = dims[d]

\* C12: a natural value that received a surrogate id in the first completed
\* run has that id in every later state of the database, whatever files the
\* later runs load
C12_StableIds ==
    snap.taken =>
        \A d \in DimNames : \A x \in snap.warehouse.dims[d] : \A y \in dims[d] :
            x.val = y.val => x.id = y.id

\* a staged item or user row on which the Entity Loader raises: a malformed
\* numeric text, or no id or no name for a NOT NULL column
ItemRaises(s) == Malformed(s) \/ s.AnimeID = NULL \/ s.AnimeTitle = NULL
UserRaises(s) == s.UserID = NULL \/ s.UserName = NULL

\* C13: the Entity Loader inserts if absent, whatever the entity tables held:
\* when it completes, every former row is still there unchanged, every staged
\* id has exactly one row, and no other id came in; an id that is already
\* there never makes it raise, and when it raises the tables are as before
C13_InsertIfAbsent ==
    [][ pc = "entities" =>
            /\ pc' = "facts" =>
                  /\ anime \subseteq anime'
                  /\ users \subseteq users'
                  /\ {e.anime_id : e \in anime'}
                        = {e.anime_id : e \in anime} \cup {s.AnimeID : s \in Range(stage["anime"])}
                  /\ {u.user_id : u \in users'}
                        = {u.user_id : u \in users} \cup {s.UserID : s \in Range(stage["users"])}
                  /\ Cardinality(anime') = Cardinality({e.anime_id : e \in anime'})
                  /\ Cardinality(users') = Cardinality({u.user_id : u \in users'})
            /\ pc' = "aborted" =>
                  /\ anime' = anime /\ users' = users
                  /\ \/ \E s \in Range(stage["anime"]) : ItemRaises(s)
                     \/ \E s \in Range(stage["users"]) : UserRaises(s)
      ]_vars

\* the Entity Loader completed on tables that held the rows of an earlier
\* call: an item staged again under another title kept its row, and a new item
\* and a new user came in
C13_Witness ==
    /\ calls = 2
    /\ pc = "facts"
    /\ snap.taken
    /\ \E e \in snap.warehouse.anime :
          /\ e \in anime
          /\ \E s \in Range(stage["anime"]) : s.AnimeID = e.anime_id /\ s.AnimeTitle # e.title
    /\ \E e \in anime : \A f \in snap.warehouse.anime : f.anime_id # e.anime_id
    /\ \E u \in users : \A f \in snap.warehouse.users : f.user_id # u.user_id

\* the changes of the driver's position within one run, and between runs
StageSequence ==
    {<<"schema", "staging">>, <<"staging", "dimensions">>, <<"dimensions", "entities">>,
     <<"entities", "facts">>, <<"facts", "done">>}
RunEnds ==
    {<<p, "aborted">> : p \in {"schema", "staging", "dimensions", "entities", "facts"}}
        \cup {<<"done", "schema">>, <<"aborted", "schema">>}

\* C14: the stages of a run follow each other in the one order schema, staging
\* (the four files one after the other), dimensions, entities, facts; when a
\* stage begins, the database holds what the stage before it wrote: the four
\* staged files, then a dimension row for every staged value, then an entity
\* row for every staged id
C14_StageOrder ==
    [][ /\ pc' # pc => <<pc, pc'>> \in StageSequence \cup RunEnds
        /\ (pc = "staging" /\ pc' = "staging" /\ fileIdx' # fileIdx) =>
              /\ fileIdx' = fileIdx + 1
              /\ Len(stage'[order[fileIdx]]) = NumDataRows(order[fileIdx])
        /\ (pc = "schema" /\ pc' = "staging") =>
              /\ fileIdx' = 1
              /\ stage' = EmptyStage /\ Warehouse' = EmptyWarehouse
        /\ (pc = "staging" /\ pc' = "dimensions") =>
              /\ fileIdx = Len(order)
              /\ \A t \in Tables : Len(stage'[t]) = NumDataRows(t)
              /\ Warehouse' = EmptyWarehouse
        /\ (pc = "dimensions" /\ pc' = "entities") =>
              /\ \A d \in DimNames : StagedNaturalValues(d) \subseteq ValuesOf(dims'[d])
              /\ anime' = {} /\ users' = {}
        /\ (pc = "entities" /\ pc' = "facts") =>
              /\ \A i \in 1..Len(stage["anime"]) :
                    \E e \in anime' : e.anime_id = stage["anime"][i].AnimeID
              /\ \A i \in 1..Len(stage["users"]) :
                    \E u \in users' : u.user_id = stage["users"][i].UserID
              /\ anime_genres' = {} /\ user_anime_ratings' = {}
      ]_vars

\* a run went through all five stages and each left rows
C14_Witness ==
    /\ pc = "done"
    /\ fileIdx = Len(order)
    /\ \A t \in Tables : stage[t] # <<>>
    /\ \A d \in DimNames : dims[d] # {}
    /\ anime # {} /\ users # {}
    /\ anime_genres # {} /\ user_anime_ratings # {}

\* the load of table t's file is refused before any row is read
FileRefused(t) ==
    ~files[t].exists \/ ~files[t].headed
        \/ ~(Range(EXPECTED_COLUMNS[t]) \subseteq Range(files[t].header))

\* a data line of table t's file carries a text no TIMESTAMP column accepts
RowRefused(t) ==
    \E i \in 1..NumDataRows(t) :
        \E c \in TimestampColumns \cap Range(EXPECTED_COLUMNS[t]) :
            ParsedRow(t, i)[c] \notin DOMAIN Timestamps \cup {NULL}

\* C15: the first exception of a run ends it: the position of the driver is
\* final and no table changes any more until the script is invoked again; a
\* run ends in success only from the Fact Builder and without an exception,
\* hence never when a file is refused, a row is refused by a staging table, or
\* a staged row makes the Entity Loader or the Fact Builder raise
C15_FatalAborts ==
    /\ [][ /\ pc = "aborted" =>
                /\ pc' \in {"aborted", "schema"}
                /\ stage' = stage
                /\ Warehouse' = Warehouse
           /\ (pc # "aborted" /\ pc' = "aborted") => (err'.kind # "none" /\ err'.at = pc)
           /\ (pc # "done" /\ pc' = "done") => (pc = "facts" /\ err' = NoError)
         ]_vars
    /\ [](err.kind # "none" <=> pc = "aborted")
    /\ [](pc = "done" =>
            /\ \A t \in Tables :
                  ~FileRefused(t) /\ ~RowRefused(t) /\ Len(stage[t]) = NumDataRows(t)
            /\ \A i \in 1..Len(stage["anime"]) : ~ItemRaises(stage["anime"][i])
            /\ \A i \in 1..Len(stage["users"]) : ~UserRaises(stage["users"][i])
            /\ \A i \in 1..Len(stage["ratings"]) :
                  Resolves(stage["ratings"][i])
                      => stage["ratings"][i].UserScore \in DOMAIN RealLiterals \cup {NULL, ""})

\* the second file of a run was missing: the first file is staged, the later
\* files and stages have written nothing
C15_Witness ==
    /\ pc = "aborted"
    /\ err.kind = "FileNotFoundError"
    /\ err.at = "staging"
    /\ fileIdx = 2
    /\ stage[order[1]] # <<>>
    /\ \A i \in 2..Len(order) : stage[order[i]] = <<>>
    /\ Warehouse = EmptyWarehouse

\* the entity and fact rows a staged row is to become, given the dimensions
ItemRowOf(s) ==
    [anime_id           |-> s.AnimeID,
     title              |-> s.AnimeTitle,
     type_id            |-> RefOf("anime_types", s.Type),
     status_id          |-> RefOf("anime_statuses", s.Status),
     episodes           |-> IntegerOf(s.Episodes),
     start_date         |-> s.StartDate,
     end_date           |-> s.EndDate,
     source_id          |-> RefOf("sources", s.Source),
     studio_id          |-> RefOf("studios", s.StudioName),
     rating_category_id |-> RefOf("rating_categories", s.RatingCategory),
     overall_score      |-> RealOf(s.OverallScore),
     popularity_rank    |-> IntegerOf(s.PopularityRank)]

UserRowOf(s) ==
    [user_id      |-> s.UserID,
     user_name    |-> s.UserName,
     country_id   |-> RefOf("countries", s.Country),
     age_group_id |-> RefOf("age_groups", s.AgeGroup),
     gender_id    |-> RefOf("genders", s.Gender)]

RatingRowOf(s) ==
    [user_id         |-> s.UserID,
     anime_id        |-> s.AnimeID,
     user_score      |-> RealOf(s.UserScore),
     rating_date     |-> s.RatingDate,
     watch_status_id |-> RefOf("watch_statuses", s.WatchStatus)]

\* the database is as the Schema Initializer leaves a database that never held
\* anything
CleanDatabase ==
    stage = EmptyStage /\ Warehouse = EmptyWarehouse /\ dimseq = ZeroSeq

\* the database is one a complete run on the current files leaves when it
\* starts from a clean database: the staged files; per dimension the staged
\* values numbered 1..n; one entity row per staged id, stemming from a staged
\* row of that id; the fact rows of the staged rows that resolve, one per key
CleanRunOutcome ==
    /\ \A t \in Tables :
          /\ Len(stage[t]) = NumDataRows(t)
          /\ \A i \in 1..Len(stage[t]) : stage[t][i] = ExpectedStaged(t, i)
    /\ \A d \in DimNames :
          /\ ValuesOf(dims[d]) = StagedNaturalValues(d)
          /\ {x.id : x \in dims[d]} = 1..Cardinality(StagedNaturalValues(d))
          /\ Cardinality(dims[d]) = Cardinality(StagedNaturalValues(d))
    /\ anime \subseteq {ItemRowOf(s) : s \in Range(stage["anime"])}
    /\ {e.anime_id : e \in anime} = {s.AnimeID : s \in Range(stage["anime"])}
    /\ Cardinality(anime) = Cardinality({e.anime_id : e \in anime})
    /\ users \subseteq {UserRowOf(s) : s \in Range(stage["users"])}
    /\ {u.user_id : u \in users} = {s.UserID : s \in Range(stage["users"])}
    /\ Cardinality(users) = Cardinality({u.user_id : u \in users})
    /\ anime_genres =
          {[anime_id |-> s.AnimeID, genre_id |-> RefOf("genres", s.GenreName)] :
              s \in {x \in Range(stage["genres"]) :
                        HasAnime(x.AnimeID) /\ RefOf("genres", x.GenreName) # NULLN}}
    /\ user_anime_ratings
          \subseteq {RatingRowOf(s) : s \in {x \in Range(stage["ratings"]) : Resolves(x)}}
    /\ {<<r.user_id, r.anime_id>> : r \in user_anime_ratings}
          = {<<s.UserID, s.AnimeID>> : s \in {x \in Range(stage["ratings"]) : Resolves(x)}}
    /\ Cardinality(user_anime_ratings)
          = Cardinality({<<r.user_id, r.anime_id>> : r \in user_anime_ratings})

\* C16: a run that follows an aborted one starts its staging on a database as
\* clean as a new one, and when it completes the database is one a complete
\* run on the same files leaves when started from a clean database
C16_RerunRecovers ==
    /\ (failed /\ pc = "staging" /\ fileIdx = 1 /\ lphase = "open") => CleanDatabase
    /\ (failed /\ pc = "done") => CleanRunOutcome

\* a run completed after an earlier run on the files had aborted
C16_Witness ==
    /\ failed
    /\ pc = "done"
    /\ anime # {} /\ users # {}
    /\ anime_genres # {} /\ user_anime_ratings # {}
    /\ \E d \in DimNames : Cardinality(dims[d]) = 2

\* C17: at most one connection is open at any moment; the staging stage holds
\* its own connection while it loads the files and no other stage's connection
\* is open then; no connection is open between two stages, nor when the run
\* has completed
C17_OneConnection ==
    /\ Cardinality(connections) <= 1
    /\ (pc = "staging" /\ (lphase = "loop" \/ fileIdx > 1)) => connections = {"staging"}
    /\ pc \in {"schema", "dimensions", "entities", "facts", "done"} => connections = {}

\* a run completed, all stages having written, and no connection is open
C17_Witness ==
    /\ pc = "done"
    /\ connections = {}
    /\ ~failed
    /\ \A t \in Tables : Len(stage[t]) = 2
    /\ anime # {}

\* C18: whatever the order of the four loads, a load changes no staging table
\* but its own, the staging stage ends with every table holding the rows of
\* its file, and the run ends in a database a run on these files ends in
C18_AnyFileOrder ==
    /\ [][ pc = "staging" =>
                \A t \in Tables \ {CurrentTable} : stage'[t] = stage[t] ]_vars
    /\ [](pc \in {"dimensions", "entities", "facts", "done"} =>
              \A t \in Tables :
                  /\ Len(stage[t]) = NumDataRows(t)
                  /\ \A i \in 1..Len(stage[t]) : stage[t][i] = ExpectedStaged(t, i))
    /\ [](pc = "done" => CleanRunOutcome)

\* a run completed that staged the ratings first and the items last
C18_Witness ==
    /\ pc = "done"
    /\ order[1] = "ratings"
    /\ order[4] = "anime"
    /\ \A t \in Tables : stage[t] # <<>>
    /\ anime_genres # {} /\ user_anime_ratings # {}

\* a staged rating whose watch status is null, empty or has no dimension row
NoWatchStatus(s) ==
    s.WatchStatus = NULL \/ s.WatchStatus = ""
        \/ ~\E x \in dims["watch_statuses"] : x.val = s.WatchStatus

\* C19: every rating row references a watch status row; when the Fact Builder
\* has completed, a pair of user and item whose staged ratings all lack a
\* watch status has no rating row, also when user and item exist, and every
\* rating row carries the watch status of a staged rating of its pair
C19_WatchStatusRequired ==
    /\ \A r \in user_anime_ratings :
          r.watch_status_id # NULLN /\ HasDim("watch_statuses", r.watch_status_id)
    /\ pc = "done" =>
          /\ \A i \in 1..Len(stage["ratings"]) :
                (\A j \in SamePair(i) : NoWatchStatus(stage["ratings"][j]))
                    => ~\E r \in user_anime_ratings :
                            /\ r.user_id = stage["ratings"][i].UserID
                            /\ r.anime_id = stage["ratings"][i].AnimeID
          /\ \A r \in user_anime_ratings :
                \E i \in 1..Len(stage["ratings"]) :
                    /\ r.user_id = stage["ratings"][i].UserID
                    /\ r.anime_id = stage["ratings"][i].AnimeID
                    /\ ~NoWatchStatus(stage["ratings"][i])
                    /\ \E x \in dims["watch_statuses"] :
                          x.val = stage["ratings"][i].WatchStatus /\ x.id = r.watch_status_id

\* the Fact Builder completed over a rating with an empty watch status whose
\* user and item exist: that pair has no rating row, another pair has one
C19_Witness ==
    /\ pc = "done"
    /\ user_anime_ratings # {}
    /\ \E i \in 1..Len(stage["ratings"]) :
          /\ stage["ratings"][i].WatchStatus = ""
          /\ HasUser(stage["ratings"][i].UserID)
          /\ HasAnime(stage["ratings"][i].AnimeID)
          /\ ~\E r \in user_anime_ratings :
                /\ r.user_id = stage["ratings"][i].UserID
                /\ r.anime_id = stage["ratings"][i].AnimeID

\* ref is the reference the staged value v of dimension d is to give: null
\* exactly for a null or empty v, else the id of the row whose value is v
RefMatches(ref, d, v) ==
    /\ ref = NULLN <=> (v = NULL \/ v = "")
    /\ ref # NULLN => \E x \in dims[d] : x.id = ref /\ x.val = v

\* C20: after the Dimension Builder and the Entity Loader on the empty schema
\* the entity tables hold one row per distinct staged id, and every row stems
\* from a staged row of its id whose dimension values its references match
C20_LeftJoinReferences ==
    pc \in {"facts", "done"} =>
        /\ Cardinality(anime) = Cardinality({s.AnimeID : s \in Range(stage["anime"])})
        /\ Cardinality(users) = Cardinality({s.UserID : s \in Range(stage["users"])})
        /\ \A e \in anime : \E s \in Range(stage["anime"]) :
              /\ e.anime_id = s.AnimeID
              /\ e.title = s.AnimeTitle
              /\ RefMatches(e.type_id, "anime_types", s.Type)
              /\ RefMatches(e.status_id, "anime_statuses", s.Status)
              /\ RefMatches(e.source_id, "sources", s.Source)
              /\ RefMatches(e.studio_id, "studios", s.StudioName)
              /\ RefMatches(e.rating_category_id, "rating_categories", s.RatingCategory)
        /\ \A u \in users : \E s \in Range(stage["users"]) :
              /\ u.user_id = s.UserID
              /\ u.user_name = s.UserName
              /\ RefMatches(u.country_id, "countries", s.Country)
              /\ RefMatches(u.age_group_id, "age_groups", s.AgeGroup)
              /\ RefMatches(u.gender_id, "genders", s.Gender)

\* the Entity Loader completed on three staged items with two distinct ids,
\* one of them without studio, and on a user without age group
C20_Witness ==
    /\ pc = "facts"
    /\ Len(stage["anime"]) = 3
    /\ Cardinality(anime) = 2
    /\ \E e \in anime : e.studio_id = NULLN /\ e.type_id # NULLN
    /\ \E u \in users : u.age_group_id = NULLN /\ u.country_id # NULLN

====
